---- MODULE Spec2Model ----
(***************************************************************************)
(* Model of src/src/rsync.rs: the rsync revision ledger (RsyncDirState)    *)
(* and the publication of a new revision directory under the stable        *)
(* 'current' path, by symlink or by rename.                                *)
(*                                                                         *)
(* One cycle is one call of update_from_rrdp_state.  Every filesystem      *)
(* operation of a cycle is one step, so that a concurrent reader, a crash  *)
(* and an I/O error can be placed between any two of them.                 *)
(***************************************************************************)
EXTENDS Integers, Sequences, FiniteSets, TLC

(* ------------------------------ bounds -------------------------------- *)
\* Serials are 1..MaxSerial; a snapshot carries at most MaxObjects objects.
MaxSerial == 3
MaxObjects == 2
\* The clock runs from 0 to MaxClock.
MaxClock == 2
\* A publishing cycle starts only while old holds fewer than MaxOld entries.
MaxOld == 2
\* config.cleanup_after is one of 1..MaxCleanupAfter.
MaxCleanupAfter == 1

(* ---------------------------- value types ----------------------------- *)
Sessions == {"s1"}

\* struct RsyncRevision { session_id, serial }
RsyncRevision == [session_id : Sessions, serial : 1..MaxSerial]

\* Option<T> is the empty set (None) or a singleton (Some).
None == {}
Some(x) == {x}
Unwrap(o) == CHOOSE x \in o : TRUE

Min(a, b) == IF a < b THEN a ELSE b

\* rrdp_state.elements(): the objects of a snapshot.  A session starts as an
\* empty repository and every serial adds an object, so serial n carries the
\* objects 1..n-1 (at most MaxObjects); the snapshot of serial 1 is empty.
Elements(rev) == 1..Min(rev.serial - 1, MaxObjects)

\* A file of a directory tree: its relative path and whose data it holds.
\* A directory is the set of its files; a directory holding no file does not
\* exist (directories come into being only as the parents of a written file).
File(f, rev) == [path |-> f, data |-> rev]
AllFiles == [path : 1..MaxObjects, data : RsyncRevision]
NoDir == {}

\* The complete tree of a revision.
FullTree(rev) == {File(f, rev) : f \in Elements(rev)}

\* struct DeprecatedRsyncRevision { since, revision }
DeprecatedRsyncRevision == [since : 0..MaxClock, revision : RsyncRevision]

\* RsyncRevision::deprecate: since is Time::now()
deprecate(rev, now) == [since |-> now, revision |-> rev]

\* struct RsyncDirState { current, old }
BlankState == [current |-> None, old |-> <<>>]

(* ------------------------- the ledger on disk ------------------------- *)
\* serde_json of RsyncDirState: current is null or an object, old an array.
\* The JSON value is kept as a tuple <<current, old>> in which null is <<>>.
\* util::ser_uuid / util::de_uuid: the session id as a JSON string.
ser_uuid(id) == <<"uuid", id>>
de_uuid(j) == j[2]
\* Serialize / Deserialize of util::Time: the timestamp as a JSON number.
ser_time(t) == <<"time", t>>
de_time(j) == j[2]

ser_revision(rev) == <<ser_uuid(rev.session_id), rev.serial>>
de_revision(j) == [session_id |-> de_uuid(j[1]), serial |-> j[2]]
ser_deprecated(d) == <<ser_time(d.since), ser_revision(d.revision)>>
de_deprecated(j) == [since |-> de_time(j[1]), revision |-> de_revision(j[2])]

\* The JSON without the elements of old
to_json_skips_old(state) ==
    << IF state.current = None THEN <<>>
       ELSE <<ser_revision(Unwrap(state.current))>>,
       <<>> >>

to_json(state) ==
    << IF state.current = None THEN <<>>
       ELSE <<ser_revision(Unwrap(state.current))>>,
       [i \in 1..Len(state.old) |-> ser_deprecated(state.old[i])] >>

from_json(j) ==
    [current |-> IF j[1] = <<>> THEN None ELSE Some(de_revision(j[1][1])),
     old |-> [i \in 1..Len(j[2]) |-> de_deprecated(j[2][i])]]

\* A ledger file whose bytes are not the JSON of an RsyncDirState, and what
\* serde_json::from_slice accepts.
Malformed == <<"malformed">>
well_formed(j) == Len(j) = 2

VARIABLES
    dirs,           \* <rsync_dir>/session_.._serial_..: revision -> directory
    current_link,   \* <rsync_dir>/current as a symlink: Option<revision name>
    current_dir,    \* <rsync_dir>/current as a real directory
    tmp_link,       \* <rsync_dir>/current.tmp: Option<revision name>
    state_file,     \* the ledger file: Option<json>
    clock,          \* Time::now()
    use_symlinks,   \* config.rsync_dir_use_symlinks()
    cleanup_after,  \* config.cleanup_after
    pc,             \* position inside update_from_rrdp_state
    rsync_state,    \* the in-memory RsyncDirState of the running cycle
    new_revision,   \* Option<RsyncRevision> of the running cycle
    changed,        \* the cycle's content_changed flag
    todo,           \* write_rsync_content: elements not yet written
    clean_before,   \* clean_old: Time::seconds_ago(cleanup_after)
    clean_idx,      \* clean_old: position of the for loop in old
    result,         \* how the last finished cycle ended
    hist            \* what is remembered about the run, for the properties

vars == <<dirs, current_link, current_dir, tmp_link, state_file, clock,
          use_symlinks, cleanup_after, pc, rsync_state, new_revision,
          changed, todo, clean_before, clean_idx, result, hist>>

\* hist records, of the running (or last) cycle:
\*   prev       how the cycle before it ended
\*   file0      the ledger file when it began
\*   link0      the symlink at the stable path when it began
\*   tree0      the tree behind the stable path when it began
\*   dirs0      the revision directories when it began
\*   dirs_c     the revision directories when its clean_old began
\*   since      the clock read by its update_current
\*   log        the calls it has completed, in order
\*   failed_at  the step at which it was stopped
\*   ledger     the ledger written by the last persist that succeeded
\* and of the whole run:
\*   faults     a cycle was killed or hit an I/O error of the environment
\*   gap        an earlier cycle was stopped before its second rename
fs == <<dirs, current_link, current_dir, tmp_link, state_file>>
config == <<use_symlinks, cleanup_after>>

(* --------------------------- paths and views -------------------------- *)
\* Path::exists() follows symlinks: a symlink exists when its target does.
dir_exists(rev) == dirs[rev] # NoDir
tmp_name_exists == tmp_link # None /\ dir_exists(Unwrap(tmp_link))
current_path_exists ==
    IF use_symlinks
    THEN current_link # None /\ dir_exists(Unwrap(current_link))
    ELSE current_dir # NoDir

\* What a reader resolving <rsync_dir>/current is served: the tree behind the
\* stable path, NoDir when the path is missing or dangling.
StableTree ==
    IF use_symlinks
    THEN IF current_link = None THEN NoDir ELSE dirs[Unwrap(current_link)]
    ELSE current_dir

\* file_ops::write_buf(path, data): creates the parents and the file, and
\* replaces a file already at that path.
write_buf(dir, f, rev) == {x \in dir : x.path # f} \cup {File(f, rev)}

(* ------------------------------ the ledger ---------------------------- *)
\* recover that starts afresh when the file does not deserialize
recover_resets ==
    IF state_file # None /\ well_formed(Unwrap(state_file))
    THEN Some(from_json(Unwrap(state_file)))
    ELSE Some(BlankState)

\* RsyncDirState::recover: Ok(state) is Some(state), Err is None.  No state
\* file gives the blank state; a file that does not deserialize is an error.
recover ==
    IF state_file = None THEN Some(BlankState)
    ELSE IF well_formed(Unwrap(state_file))
         THEN Some(from_json(Unwrap(state_file)))
         ELSE None

\* update_current without the push of the existing current
update_current_forgets(state, rev, now) ==
    [current |-> Some(rev), old |-> state.old]

\* RsyncDirState::update_current
update_current(state, rev, now) ==
    [current |-> Some(rev),
     old |-> IF state.current # None
             THEN Append(state.old, deprecate(Unwrap(state.current), now))
             ELSE state.old]

\* clean_old: the entries whose directory the for loop removes
is_expired(deprecated, before) == deprecated.since < before

\* clean_old: the entries self.old.retain keeps
is_retained(deprecated, before) == deprecated.since > before

(* ------------------------- how a cycle ends --------------------------- *)
\* The cycle is over: the process's memory is gone, the filesystem stays.
Finish(res) ==
    /\ pc' = "idle"
    /\ result' = res
    /\ rsync_state' = BlankState
    /\ todo' = {}
    /\ clean_before' = 0
    /\ clean_idx' = 0
    /\ hist' = [hist EXCEPT !.failed_at = pc,
                            !.faults = @ \/ res \in {"crash", "ioerr"},
                            !.dirs_c = [r \in RsyncRevision |-> NoDir]]
    /\ UNCHANGED <<new_revision, changed, clock, config>>

\* A step inside a call went through.
Quiet(next) ==
    /\ pc' = next
    /\ UNCHANGED <<result, new_revision, changed, clock, config, hist>>

\* The step that completes the call `name` went through.
Step(next, name) ==
    /\ pc' = next
    /\ hist' = [hist EXCEPT !.log = Append(@, name)]
    /\ UNCHANGED <<result, new_revision, changed, clock, config>>

TypeOK ==
    /\ dirs \in [RsyncRevision -> SUBSET AllFiles]
    /\ current_link \subseteq RsyncRevision /\ Cardinality(current_link) <= 1
    /\ current_dir \subseteq AllFiles
    /\ tmp_link \subseteq RsyncRevision /\ Cardinality(tmp_link) <= 1
    /\ Cardinality(state_file) <= 1
    /\ clock \in 0..MaxClock
    /\ use_symlinks \in BOOLEAN
    /\ cleanup_after \in 1..MaxCleanupAfter
    /\ pc \in {"idle", "write", "rm_tmp", "mk_tmp", "mv_tmp", "backup",
               "publish", "update", "clean", "clean_loop", "persist"}
    /\ new_revision \subseteq RsyncRevision
    /\ changed \in BOOLEAN
    /\ result \in {"none", "running", "ok", "err", "ioerr", "crash"}

Init ==
    /\ dirs = [r \in RsyncRevision |-> NoDir]
    /\ current_link = None
    /\ current_dir = NoDir
    /\ tmp_link = None
    /\ state_file = None
    /\ clock = 0
    /\ use_symlinks \in BOOLEAN
    /\ cleanup_after \in 1..MaxCleanupAfter
    /\ pc = "idle"
    /\ rsync_state = BlankState
    /\ new_revision = None
    /\ changed = FALSE
    /\ todo = {}
    /\ clean_before = 0
    /\ clean_idx = 0
    /\ result = "none"
    /\ hist = [prev |-> "none", file0 |-> None, link0 |-> None,
               tree0 |-> NoDir, dirs0 |-> [r \in RsyncRevision |-> NoDir],
               faults |-> FALSE, gap |-> FALSE,
               failed_at |-> "none", since |-> 0, log |-> <<>>,
               dirs_c |-> [r \in RsyncRevision |-> NoDir],
               ledger |-> BlankState]

(* ------------------------ update_from_rrdp_state ---------------------- *)
\* Lines 33-40: recover the ledger, name the new revision, branch on changed.
\* The branch without clean_old when nothing changed
branch_skips_clean(ch) == IF ch THEN "write" ELSE "persist"

\* Lines 40-52: `if changed` runs the materialisation first; clean_old is
\* the next call in either case.
branch(ch) == IF ch THEN "write" ELSE "clean"

\* When recover returns the error, the `?` of line 33 ends the cycle.
StartCycle(rev, ch) ==
    /\ pc = "idle"
    /\ new_revision' = Some(rev)
    /\ changed' = ch
    /\ IF recover = None
       THEN /\ rsync_state' = BlankState
            /\ todo' = {}
            /\ pc' = "idle"
            /\ result' = "err"
       ELSE /\ ch => Len(Unwrap(recover).old) < MaxOld
            /\ rsync_state' = Unwrap(recover)
            /\ todo' = IF ch THEN Elements(rev) ELSE {}
            /\ pc' = branch(ch)
            /\ result' = "running"
    /\ hist' = [prev |-> result, file0 |-> state_file, link0 |-> current_link,
                tree0 |-> StableTree, dirs0 |-> dirs, faults |-> hist.faults,
                gap |-> hist.gap \/ hist.failed_at = "publish",
                failed_at |-> IF recover = None THEN "recover" ELSE "none",
                since |-> 0, log |-> <<>>,
                dirs_c |-> [r \in RsyncRevision |-> NoDir],
                ledger |-> hist.ledger]
    /\ UNCHANGED <<fs, clock, config, clean_before, clean_idx>>

\* write_rsync_content: one element of the iterator is written.
WriteElement ==
    /\ pc = "write" /\ todo # {}
    /\ LET rev == Unwrap(new_revision)
           f == CHOOSE x \in todo : \A y \in todo : x <= y
       IN /\ dirs' = [dirs EXCEPT ![rev] = write_buf(@, f, rev)]
          /\ todo' = todo \ {f}
    /\ Quiet("write")
    /\ UNCHANGED <<current_link, current_dir, tmp_link, state_file,
                   rsync_state, clean_before, clean_idx>>

\* write_rsync_content returns Ok once the iterator is exhausted.
WriteDone ==
    /\ pc = "write" /\ todo = {}
    /\ Step(IF use_symlinks THEN "rm_tmp" ELSE "backup", "write_rsync_content")
    /\ UNCHANGED <<fs, rsync_state, todo, clean_before, clean_idx>>

(* ----------------- symlink_current_to_new_revision_dir ---------------- *)
\* Lines 73-80: remove a lingering temporary symlink, if tmp_name.exists().
RemoveLingeringTmp ==
    /\ pc = "rm_tmp"
    /\ tmp_link' = IF tmp_name_exists THEN None ELSE tmp_link
    /\ Quiet("mk_tmp")
    /\ UNCHANGED <<dirs, current_link, current_dir, state_file, rsync_state,
                   todo, clean_before, clean_idx>>

\* Lines 82-87: symlink(new_revision.dir_name(), tmp_name); fails with EEXIST
\* when something is at tmp_name already.
CreateTmpSymlink ==
    /\ pc = "mk_tmp"
    /\ IF tmp_link # None
       THEN Finish("err") /\ UNCHANGED fs
       ELSE /\ tmp_link' = new_revision
            /\ Step("mv_tmp", "symlink")
            /\ UNCHANGED <<dirs, current_link, current_dir, state_file,
                           rsync_state, todo, clean_before, clean_idx>>

\* Lines 89-94: rename(tmp_name, current_path) replaces the symlink at once.
RenameTmpToCurrent ==
    /\ pc = "mv_tmp"
    /\ current_link' = tmp_link
    /\ tmp_link' = None
    /\ Step("update", "rename_tmp")
    /\ UNCHANGED <<dirs, current_dir, state_file, rsync_state, todo,
                   clean_before, clean_idx>>

(* ------------------ rename_new_revision_dir_to_current ---------------- *)
\* rename(2) of a directory: the source must exist, and the destination must
\* not be a directory holding files.
can_rename_dir(from, to) == from # NoDir /\ to = NoDir

\* Lines 111-126: move the directory at the stable path to the canonical path
\* of the revision the ledger records as current.
BackupCurrent ==
    /\ pc = "backup"
    /\ IF rsync_state.current # None /\ current_path_exists
       THEN LET current == Unwrap(rsync_state.current)
            IN IF can_rename_dir(current_dir, dirs[current])
               THEN /\ dirs' = [dirs EXCEPT ![current] = current_dir]
                    /\ current_dir' = NoDir
                    /\ Step("publish", "rename_old")
                    /\ UNCHANGED <<current_link, tmp_link, state_file,
                                   rsync_state, todo, clean_before, clean_idx>>
               ELSE Finish("err") /\ UNCHANGED fs
       ELSE /\ Quiet("publish")
            /\ UNCHANGED <<fs, rsync_state, todo, clean_before, clean_idx>>

\* Lines 128-135: move the new revision's directory onto the stable path.
RenameNewToCurrent ==
    /\ pc = "publish"
    /\ LET rev == Unwrap(new_revision)
       IN IF can_rename_dir(dirs[rev], current_dir)
          THEN /\ current_dir' = dirs[rev]
               /\ dirs' = [dirs EXCEPT ![rev] = NoDir]
               /\ Step("update", "rename_new")
               /\ UNCHANGED <<current_link, tmp_link, state_file, rsync_state,
                              todo, clean_before, clean_idx>>
          ELSE Finish("err") /\ UNCHANGED fs

(* ------------------------------ the ledger steps ---------------------- *)
\* Line 49: rsync_state.update_current(new_revision)
UpdateCurrent ==
    /\ pc = "update"
    /\ rsync_state' = update_current(rsync_state, Unwrap(new_revision), clock)
    /\ pc' = "clean"
    /\ hist' = [hist EXCEPT !.log = Append(@, "update_current"),
                            !.since = clock]
    /\ UNCHANGED <<result, new_revision, changed, clock, config>>
    /\ UNCHANGED <<fs, todo, clean_before, clean_idx>>

\* Line 203: clean_before = Time::seconds_ago(config.cleanup_after)
CleanBegin ==
    /\ pc = "clean"
    /\ clean_before' = clock - cleanup_after
    /\ clean_idx' = 1
    /\ pc' = "clean_loop"
    /\ hist' = [hist EXCEPT !.dirs_c = dirs]
    /\ UNCHANGED <<result, new_revision, changed, clock, config>>
    /\ UNCHANGED <<fs, rsync_state, todo>>

\* The for loop without `if path.exists()`: remove_dir_all of a directory
\* that is not there returns the error.
CleanStep_unchecked ==
    /\ pc = "clean_loop" /\ clean_idx <= Len(rsync_state.old)
    /\ LET deprecated == rsync_state.old[clean_idx]
       IN IF is_expired(deprecated, clean_before)
             /\ ~dir_exists(deprecated.revision)
          THEN Finish("err") /\ UNCHANGED fs
          ELSE /\ dirs' = IF is_expired(deprecated, clean_before)
                          THEN [dirs EXCEPT ![deprecated.revision] = NoDir]
                          ELSE dirs
               /\ Quiet("clean_loop")
               /\ clean_idx' = clean_idx + 1
               /\ UNCHANGED <<current_link, current_dir, tmp_link, state_file,
                              rsync_state, todo, clean_before>>

\* Lines 205-221: the for loop over old, one entry a step.
CleanStep ==
    /\ pc = "clean_loop" /\ clean_idx <= Len(rsync_state.old)
    /\ LET deprecated == rsync_state.old[clean_idx]
       IN IF is_expired(deprecated, clean_before)
             /\ dir_exists(deprecated.revision)
          THEN dirs' = [dirs EXCEPT ![deprecated.revision] = NoDir]
          ELSE dirs' = dirs
    /\ Quiet("clean_loop")
    /\ clean_idx' = clean_idx + 1
    /\ UNCHANGED <<current_link, current_dir, tmp_link, state_file,
                   rsync_state, todo, clean_before>>

\* Lines 223-226: self.old.retain(..), Ok(())
CleanRetain ==
    /\ pc = "clean_loop" /\ clean_idx > Len(rsync_state.old)
    /\ rsync_state' =
         [rsync_state EXCEPT
            !.old = SelectSeq(@, LAMBDA d : is_retained(d, clean_before))]
    /\ pc' = "persist"
    /\ hist' = [hist EXCEPT !.log = Append(@, "clean_old"),
                            !.dirs_c = [r \in RsyncRevision |-> NoDir]]
    /\ UNCHANGED <<result, new_revision, changed, clock, config>>
    /\ UNCHANGED <<fs, todo, clean_before, clean_idx>>

\* Line 53 and RsyncDirState::persist: the ledger file is replaced.
Persist ==
    /\ pc = "persist"
    /\ state_file' = Some(to_json(rsync_state))
    /\ hist' = [hist EXCEPT !.log = Append(@, "persist"),
                            !.ledger = rsync_state]
    /\ pc' = "idle"
    /\ result' = "ok"
    /\ rsync_state' = BlankState
    /\ todo' = {}
    /\ clean_idx' = 0
    /\ UNCHANGED <<dirs, current_link, current_dir, tmp_link, new_revision,
                   changed, clock, config, clean_before>>

(* --------------------------- the environment -------------------------- *)
\* The step at pc performs an I/O operation, which may fail for a reason of
\* its own (permissions, a full disk): the `?` returns the error.
does_io ==
    \/ pc \in {"mk_tmp", "mv_tmp", "publish", "persist"}
    \/ pc = "write" /\ todo # {}
    \/ pc = "rm_tmp" /\ tmp_name_exists
    \/ pc = "backup" /\ rsync_state.current # None /\ current_path_exists
    \/ /\ pc = "clean_loop" /\ clean_idx <= Len(rsync_state.old)
       /\ is_expired(rsync_state.old[clean_idx], clean_before)
       /\ dir_exists(rsync_state.old[clean_idx].revision)

IoError ==
    /\ does_io
    /\ Finish("ioerr")
    /\ UNCHANGED fs

\* The process is killed between two steps.
Crash ==
    /\ pc # "idle"
    /\ Finish("crash")
    /\ UNCHANGED fs

\* The ledger file has been damaged since the last cycle (a torn write, a
\* fault of the disk, an edit by hand): the cycle that begins finds bytes
\* that do not deserialize, and recover returns the error.
DamagedStateFile(rev, ch) ==
    /\ pc = "idle"
    /\ recover # None /\ state_file # None
    /\ state_file' = Some(Malformed)
    /\ new_revision' = Some(rev)
    /\ changed' = ch
    /\ rsync_state' = BlankState
    /\ todo' = {}
    /\ pc' = "idle"
    /\ result' = "err"
    /\ hist' = [prev |-> result, file0 |-> Some(Malformed),
                link0 |-> current_link, tree0 |-> StableTree, dirs0 |-> dirs,
                faults |-> hist.faults,
                gap |-> hist.gap \/ hist.failed_at = "publish",
                failed_at |-> "recover", since |-> 0, log |-> <<>>,
                dirs_c |-> [r \in RsyncRevision |-> NoDir],
                ledger |-> hist.ledger]
    /\ UNCHANGED <<dirs, current_link, current_dir, tmp_link, clock, config,
                   clean_before, clean_idx>>

\* Time passes.  The clock is read by update_current and by clean_old.
Tick ==
    /\ pc \in {"idle", "update", "clean"}
    /\ clock < MaxClock
    /\ clock' = clock + 1
    /\ UNCHANGED <<fs, config, pc, rsync_state, new_revision, changed, todo,
                   clean_before, clean_idx, result, hist>>

Cycle ==
    \/ WriteElement \/ WriteDone
    \/ RemoveLingeringTmp \/ CreateTmpSymlink \/ RenameTmpToCurrent
    \/ BackupCurrent \/ RenameNewToCurrent
    \/ UpdateCurrent \/ CleanBegin \/ CleanStep \/ CleanRetain \/ Persist

Next ==
    \/ \E rev \in RsyncRevision, ch \in BOOLEAN : StartCycle(rev, ch)
    \/ Cycle
    \/ IoError
    \/ Crash
    \/ \E rev \in RsyncRevision, ch \in BOOLEAN : DamagedStateFile(rev, ch)
    \/ Tick

Spec == Init /\ [][Next]_vars

(* ============================ properties ============================== *)
Range(seq) == {seq[i] : i \in 1..Len(seq)}
Last(seq) == seq[Len(seq)]
Logged(name) == \E i \in 1..Len(hist.log) : hist.log[i] = name

\* The ledger the next cycle would recover, and the one this cycle recovered.
Persisted == IF recover = None THEN BlankState ELSE Unwrap(recover)
Recovered0 ==
    IF hist.file0 # None /\ well_formed(Unwrap(hist.file0))
    THEN from_json(Unwrap(hist.file0))
    ELSE BlankState

\* A revision has been published and recorded.
Published == Persisted.current # None

(* ---- C2 ---- *)
NoDuplicates(state) ==
    \A i, j \in 1..Len(state.old) :
        i # j => state.old[i].revision # state.old[j].revision
CurrentNotOld(state) ==
    \A i \in 1..Len(state.old) : state.old[i].revision \notin state.current

\* C2: in every ledger state update_from_rrdp_state reaches, in memory or on
\* disk, a revision appears in old at most once and no entry of old is the
\* current revision.
C2_LedgerInvariant ==
    /\ NoDuplicates(rsync_state) /\ CurrentNotOld(rsync_state)
    /\ NoDuplicates(Persisted) /\ CurrentNotOld(Persisted)

(* ---- C3 ---- *)
\* C3: when clean_old returns, every entry of old older than T - D is dropped
\* and its directory is gone; every other entry is still in old, unchanged,
\* and its directory is as it was when clean_old began; no entry is dropped
\* while its directory is on disk.
C3_CleanOld ==
    [][(pc = "clean_loop" /\ pc' = "persist") =>
        \A i \in 1..Len(rsync_state.old) :
            LET d == rsync_state.old[i]
                kept == d \in Range(rsync_state'.old)
            IN /\ d.since < clean_before =>
                    ~kept /\ dirs'[d.revision] = NoDir
               /\ ~(d.since < clean_before) =>
                    kept /\ dirs'[d.revision] = hist.dirs_c[d.revision]
               /\ ~kept => dirs'[d.revision] = NoDir]_vars

(* ---- C1 ---- *)
\* C1: with symlinks, once a revision has been published and recorded, a
\* reader finds 'current' present at every moment, pointing where it pointed
\* when the cycle began or at the cycle's new revision, and the directory it
\* points at exists and holds the complete tree of that revision.
C1_ReaderSeesOldOrNew ==
    (use_symlinks /\ Published) =>
        /\ current_link # None
        /\ current_link = hist.link0 \/ current_link = new_revision
        /\ dir_exists(Unwrap(current_link))
        /\ dirs[Unwrap(current_link)] = FullTree(Unwrap(current_link))

(* ---- C4 ---- *)
\* C4: with symlinks, the cycle that follows a crashed cycle and publishes
\* (content_changed = true), itself neither killed nor hit by an I/O error of
\* its own, ends Ok with the stable path resolving to its revision's tree.
C4_NextCycleAfterCrashSymlink ==
    (/\ use_symlinks /\ pc = "idle" /\ changed
     /\ hist.prev = "crash" /\ result \in {"ok", "err"}
     /\ hist.failed_at # "recover") =>
        /\ result = "ok"
        /\ current_link = new_revision
        /\ current_path_exists
        /\ StableTree = FullTree(Unwrap(new_revision))

(* ---- C5 ---- *)
\* C5: with renames, the publishing cycle that follows a cycle which crashed
\* or failed, no cycle so far having stopped between the two renames, ends Ok
\* with the stable path holding its revision's tree.
C5_NextCycleAfterCrashRename ==
    (/\ ~use_symlinks /\ pc = "idle" /\ changed /\ ~hist.gap
     /\ hist.prev \in {"crash", "err", "ioerr"}
     /\ result \in {"ok", "err"} /\ hist.failed_at # "recover") =>
        /\ result = "ok"
        /\ current_dir # NoDir
        /\ current_dir = FullTree(Unwrap(new_revision))

(* ---- C6 ---- *)
\* The swap of this cycle began with a current revision on record and a
\* directory at the stable path.
SwapHasPrevious ==
    ~use_symlinks /\ rsync_state.current # None /\ hist.tree0 # NoDir

\* C6: with renames, when the ledger records a current revision A and a
\* directory is at the stable path, the stable path has been renamed to A's
\* path before the new revision is renamed onto it; after the swap A's tree is
\* under A's path and the stable path holds the new revision's tree.
C6_BackupBeforePublish ==
    SwapHasPrevious =>
        /\ pc = "publish" =>
              /\ Last(hist.log) = "rename_old"
              /\ current_dir = NoDir
              /\ dirs[Unwrap(rsync_state.current)] = hist.tree0
        /\ (pc = "update" /\ Last(hist.log) = "rename_new") =>
              /\ Logged("rename_old")
              /\ dirs[Unwrap(rsync_state.current)]
                    = FullTree(Unwrap(rsync_state.current))
              /\ dir_exists(Unwrap(rsync_state.current))
              /\ current_dir = FullTree(Unwrap(new_revision))

(* ---- C7 ---- *)
\* C7: with renames and no crash or I/O error so far, the stable path, when
\* it exists, holds the complete tree of one revision, and once a revision
\* has been published it is absent only between the two renames of a swap.
C7_StablePathRename ==
    (~use_symlinks /\ ~hist.faults) =>
        /\ current_dir # NoDir =>
              \E rev \in RsyncRevision : current_dir = FullTree(rev)
        /\ (Published /\ current_dir = NoDir) => pc = "publish"

(* ---- C8 ---- *)
\* C8: throughout and after a cycle with content_changed = false the ledger's
\* current is the one recovered, no revision directory has appeared, the
\* stable path and the tree behind it are as they were when the cycle began;
\* a cycle that ends Ok has run clean_old and then persisted the ledger.
C8_UnchangedCycle ==
    (~changed /\ result # "none") =>
        /\ pc # "idle" => rsync_state.current = Recovered0.current
        /\ Persisted.current = Recovered0.current
        /\ \A rev \in RsyncRevision :
              hist.dirs0[rev] = NoDir => dirs[rev] = NoDir
        /\ current_link = hist.link0
        /\ StableTree = hist.tree0
        /\ result = "ok" =>
              /\ Logged("clean_old")
              /\ Last(hist.log) = "persist"
              /\ state_file # None

(* ---- C9 ---- *)
\* C9: after a cycle that published B over a recorded current A # B and ended
\* Ok, the persisted ledger has current = B and the stable path serves B's
\* tree; if A's deprecation is not older than the retention threshold, old
\* has gained one entry, which references A, and A's tree is under A's path.
C9_PublishedCycle ==
    (/\ pc = "idle" /\ result = "ok" /\ changed
     /\ Recovered0.current # None
     /\ Recovered0.current # new_revision) =>
        LET A == Unwrap(Recovered0.current)
            B == Unwrap(new_revision)
            old == Persisted.old
        IN /\ Persisted.current = Some(B)
           /\ current_path_exists
           /\ StableTree = FullTree(B)
           /\ hist.since >= clean_before =>
                /\ Len(old) >= 1
                /\ Last(old) = deprecate(A, hist.since)
                /\ \A i \in 1..(Len(old) - 1) :
                      old[i] \in Range(Recovered0.old)
                /\ dir_exists(A)
                /\ dirs[A] = FullTree(A)

(* ---- C10 ---- *)
SwapSteps == {"rm_tmp", "mk_tmp", "mv_tmp", "backup", "publish"}

\* C10: a cycle in which write_rsync_content or the swap returned an error
\* has run no later step and has left the ledger file as it was when the
\* cycle began; if write_rsync_content failed, the stable path and the tree
\* behind it are as they were too.
C10_FailFast ==
    (/\ pc = "idle" /\ result \in {"err", "ioerr"}
     /\ hist.failed_at \in SwapSteps \cup {"write"}) =>
        /\ state_file = hist.file0
        /\ ~Logged("update_current")
        /\ ~Logged("clean_old")
        /\ ~Logged("persist")
        /\ hist.failed_at = "write" =>
              /\ current_link = hist.link0
              /\ current_dir = hist.tree0 \/ use_symlinks
              /\ StableTree = hist.tree0

(* ---- C11 ---- *)
\* The revisions a ledger keeps track of: its current and those of old.
Tracked(state) ==
    state.current \cup {state.old[i].revision : i \in 1..Len(state.old)}

\* C11: when remove_dir_all fails in clean_old, the cycle ends with the error
\* and the ledger file is the one the cycle began with; every revision the
\* ledger in memory kept track of at that moment (published or deprecated
\* before the failure) and whose directory is on disk is tracked by the
\* ledger the next cycle recovers.
C11_CleanFailureKeepsTrack ==
    [][(pc = "clean_loop" /\ result' = "ioerr") =>
        /\ pc' = "idle"
        /\ state_file' = hist.file0
        /\ ~Logged("persist")
        /\ \A rev \in Tracked(rsync_state) :
              dirs'[rev] # NoDir => rev \in Tracked(Persisted')]_vars

(* ---- C12 ---- *)
\* C12: when update_current(B) has returned, current is B; if the ledger had
\* a current A, old is the old of before with one entry appended, which
\* holds A and the clock read at the call; if it had no current, old is the
\* old of before.
C12_UpdateCurrent ==
    (pc = "clean" /\ Logged("update_current")) =>
        /\ rsync_state.current = new_revision
        /\ Recovered0.current # None =>
              /\ Len(rsync_state.old) = Len(Recovered0.old) + 1
              /\ SubSeq(rsync_state.old, 1, Len(Recovered0.old))
                    = Recovered0.old
              /\ Last(rsync_state.old).revision = Unwrap(Recovered0.current)
              /\ Last(rsync_state.old).since = hist.since
        /\ Recovered0.current = None => rsync_state.old = Recovered0.old

\* update_current has replaced a current, after the clock had advanced.
C12_Witness ==
    /\ pc = "clean" /\ Logged("update_current")
    /\ Recovered0.current # None
    /\ Recovered0.current # new_revision
    /\ Len(Recovered0.old) >= 1
    /\ hist.since >= 1

(* ---- C13 ---- *)
IsPrefix(a, b) == Len(a) <= Len(b) /\ a = SubSeq(b, 1, Len(a))

\* The calls of a whole cycle, in order.
CycleOrders ==
    IF ~changed THEN {<<"clean_old", "persist">>}
    ELSE IF use_symlinks
    THEN {<<"write_rsync_content", "symlink", "rename_tmp",
            "update_current", "clean_old", "persist">>}
    ELSE {<<"write_rsync_content", "rename_new",
            "update_current", "clean_old", "persist">>,
          <<"write_rsync_content", "rename_old", "rename_new",
            "update_current", "clean_old", "persist">>}

\* C13: the calls a cycle has completed are, at every moment, the beginning
\* of: (materialise, swap, update_current when content changed,) clean_old,
\* persist; a cycle that ends Ok has completed them all, persist last.  The
\* ledger file changes only by that persist, and the current it then names
\* is the one recovered or the revision this cycle has materialised and
\* swapped in.
C13_CycleOrder ==
    /\ [](result # "none" =>
            /\ \E o \in CycleOrders : IsPrefix(hist.log, o)
            /\ result = "ok" => hist.log \in CycleOrders)
    /\ [][(state_file' # state_file /\ state_file' # Some(Malformed)) =>
            /\ pc = "persist" /\ Last(hist.log) = "clean_old"
            /\ result' = "ok"
            /\ \/ Persisted'.current = Recovered0.current
               \/ /\ Persisted'.current = new_revision
                  /\ Logged("write_rsync_content")
                  /\ Logged("rename_tmp") \/ Logged("rename_new")
                  /\ Logged("update_current")]_vars

\* A cycle has published a revision other than the recorded one and ended Ok.
C13_Witness ==
    /\ pc = "idle" /\ result = "ok" /\ changed
    /\ Recovered0.current # None
    /\ Persisted.current = new_revision
    /\ Persisted.current # Recovered0.current

(* ---- C14 ---- *)
\* C14: a cycle that began without a ledger file works on the blank ledger
\* (no current, old empty) until its update_current; a cycle that began on
\* a ledger file that does not deserialize has ended with the error at
\* recover, has completed no call, and the ledger file, the revision
\* directories and the stable path are as they were when it began.
C14_Recover ==
    /\ (pc # "idle" /\ hist.file0 = None /\ ~Logged("update_current")) =>
            rsync_state = [current |-> None, old |-> <<>>]
    /\ (result # "none" /\ hist.file0 = Some(Malformed)) =>
            /\ pc = "idle" /\ result = "err"
            /\ hist.failed_at = "recover"
            /\ hist.log = <<>>
            /\ state_file = hist.file0
            /\ dirs = hist.dirs0
            /\ current_link = hist.link0
            /\ StableTree = hist.tree0

\* A cycle has found the ledger file malformed, a revision being published.
C14_Witness ==
    /\ pc = "idle" /\ result = "err"
    /\ hist.failed_at = "recover" /\ hist.prev = "err"
    /\ state_file = Some(Malformed)
    /\ StableTree # NoDir

(* ---- C15 ---- *)
\* C15: when the for loop of clean_old comes to an entry older than the
\* threshold whose directory is not on disk, no error ends the cycle there;
\* and when clean_old returns, every such entry has been dropped from old.
C15_CleanAbsentDir ==
    [][/\ (/\ pc = "clean_loop" /\ clean_idx <= Len(rsync_state.old)
           /\ rsync_state.old[clean_idx].since < clean_before
           /\ dirs[rsync_state.old[clean_idx].revision] = NoDir) =>
              result' \notin {"err", "ioerr"}
       /\ (pc = "clean_loop" /\ pc' = "persist") =>
              \A d \in Range(rsync_state.old) :
                 (d.since < clean_before /\ hist.dirs_c[d.revision] = NoDir)
                    => d \notin Range(rsync_state'.old)]_vars

\* clean_old has returned Ok in a cycle that began with an entry past the
\* threshold whose directory was not on disk, and the entry is dropped.
C15_Witness ==
    /\ pc = "persist" /\ ~changed
    /\ \E d \in Range(Recovered0.old) :
          /\ d.since < clean_before
          /\ hist.dirs0[d.revision] = NoDir
          /\ d \notin Range(rsync_state.old)

C17_LiveDirUntouched ==
    [][/\ \A rev \in RsyncRevision :
            (use_symlinks /\ current_link = Some(rev) /\ dir_exists(rev)) =>
                /\ pc = "clean_loop" => dirs'[rev] # NoDir
                /\ (pc = "write" /\ todo # {} /\ pc' = "write") =>
                      new_revision # Some(rev)
       /\ (~use_symlinks /\ pc \in {"clean_loop", "write"}) =>
            current_dir' = current_dir]_vars

(* ---- C18 ---- *)
\* C18: in a run in which no cycle was killed or hit an I/O error, clean_old
\* drops the entry of a replaced revision from old only when that revision's
\* directory is gone from disk: an entry dropped earlier is looked at by no
\* later clean_old, and its directory is never removed.
C18_DroppedOnlyWhenRemoved ==
    [][(~hist.faults /\ pc = "clean_loop" /\ pc' = "persist") =>
        \A d \in Range(rsync_state.old) :
            (d \notin Range(rsync_state'.old)
             /\ d.revision \notin rsync_state.current)
                => dirs'[d.revision] = NoDir]_vars

(* ---- C19 ---- *)
\* C19: whatever the objects of the snapshot, none included, the swap of a
\* publishing cycle leaves the stable path resolving to a directory that
\* exists, and the swap does not fail for want of the new revision's
\* directory: a cycle that nothing stops from outside ends Ok.
C19_EmptySnapshot ==
    /\ (pc = "update" /\ ~Logged("update_current")) =>
            /\ current_path_exists
            /\ use_symlinks => dir_exists(Unwrap(current_link))
    /\ (/\ pc = "idle" /\ changed /\ result = "err"
        /\ hist.failed_at \in SwapSteps) =>
            dir_exists(Unwrap(new_revision))
    /\ (/\ pc = "idle" /\ changed /\ result = "ok"
        /\ Elements(Unwrap(new_revision)) = {}) =>
            current_path_exists

====
